---- MODULE Spec2Model ----
(***************************************************************************)
(* Smart Expense AI: the CSV-backed expense store (expense_model.py) and   *)
(* the Tk front end's event handlers (gui_app.py).                         *)
(*                                                                         *)
(* Text is a TLA+ string.  Amounts are counted in hundredths of a rupee,   *)
(* so that round(x, 2) is rounding to an integer.  The amounts used are    *)
(* whole rupees and the tables hold fewer than 8 rows, so no quotient the  *)
(* code rounds lies exactly half way between two hundredths (the only case *)
(* in which the binary representation of a float decides the rounding).    *)
(***************************************************************************)
EXTENDS Integers, Sequences, FiniteSets, TLC

(***************************************************************************)
(* Bounds of the model.                                                    *)
(***************************************************************************)
MaxRows == 3

(***************************************************************************)
(* Values of a DataFrame cell.                                             *)
(***************************************************************************)
\* float('nan') in an object column: what read_csv gives for an empty cell.
NaN == "<NaN>"
\* Python None: what load_data puts in a column the file does not have.
None == "<None>"
\* pd.isna
IsNull(x) == x \in {NaN, None}

\* A float64 amount: a number of hundredths, or nan.
Amt(v) == [nan |-> FALSE, v |-> v]
NaNAmt == [nan |-> TRUE, v |-> 0]

\* The columns load_data normalises to (expected_cols).
ExpectedCols == {"date", "category", "amount"}

(***************************************************************************)
(* Text <-> value conversions, as tables over the text the model uses.     *)
(***************************************************************************)
\* The cells pandas.read_csv reads as missing (its default na_values).
NAValues == {"", "#N/A", "#N/A N/A", "#NA", "-1.#IND", "-1.#QNAN", "-NaN", "-nan",
             "1.#IND", "1.#QNAN", "<NA>", "N/A", "NA", "NULL", "NaN", "n/a", "nan", "null"}

\* repr of a float, as to_csv writes it: <<hundredths, text>>.
FloatRepr == {<<0, "0.0">>, <<1000, "10.0">>, <<3000, "30.0">>, <<-500, "-5.0">>}

\* Text that parses to a float without being its repr: <<text, hundredths>>.
FloatAlso == {<<"30", 3000>>, <<"10", 1000>>, <<"0", 0>>, <<"-5", -500>>}

\* ISO dates and the timestamp each parses to, as the integer yyyymmdd.
DateTable == {<<"2024-01-15", 20240115>>, <<"2024-01-31", 20240131>>,
              <<"2024-02-10", 20240210>>, <<"2024-03-05", 20240305>>}

\* str.lower() on the category text of the model.
LowerTable == {<<"Food", "food">>, <<"FOOD", "food">>, <<"Bills", "bills">>,
               <<"All", "all">>, <<"NaN", "nan">>}

\* NaT, the missing timestamp.
NaT == 0

\* float(text) / pd.to_numeric(text, errors="coerce") on one cell: nan for text
\* that is no number.
to_numeric(x) ==
    IF IsNull(x) THEN NaNAmt
    ELSE IF \E p \in FloatRepr : p[2] = x THEN Amt((CHOOSE p \in FloatRepr : p[2] = x)[1])
    ELSE IF \E p \in FloatAlso : p[1] = x THEN Amt((CHOOSE p \in FloatAlso : p[1] = x)[2])
    ELSE NaNAmt

\* Series.fillna(0.0) on one cell.
fillna0(a) == IF a.nan THEN Amt(0) ELSE a

\* to_csv's text for a float cell.
float_to_csv(a) == IF a.nan THEN "" ELSE (CHOOSE p \in FloatRepr : p[1] = a.v)[2]

\* to_csv's text for an object cell: a missing value is written as the empty cell.
obj_to_csv(x) == IF IsNull(x) THEN "" ELSE x

\* read_csv on one cell of an object column.
read_cell(t) == IF t \in NAValues THEN NaN ELSE t

\* pd.to_datetime(x, errors="coerce") on one value.
to_datetime(x) ==
    IF IsNull(x) THEN NaT
    ELSE IF \E p \in DateTable : p[1] = x THEN (CHOOSE p \in DateTable : p[1] = x)[2]
    ELSE NaT

\* Series.dt.strftime("%Y-%m-%d") on one timestamp: NaT gives a missing value.
strftime(ts) == IF ts = NaT THEN NaN ELSE (CHOOSE p \in DateTable : p[2] = ts)[1]

\* str.lower()
lower(s) == IF \E p \in LowerTable : p[1] = s THEN (CHOOSE p \in LowerTable : p[1] = s)[2] ELSE s

\* Series.astype(str) on one cell of an object column.
astype_str(x) == IF x = NaN THEN "nan" ELSE IF x = None THEN "None" ELSE x

(***************************************************************************)
(* The durable store: expenses.csv.  state is "absent", "ok" (a header     *)
(* line and rows) or "empty" (a file of zero bytes, which to_csv leaves    *)
(* when the write fails after the file was opened for writing).            *)
(***************************************************************************)
Row(d, c, a) == [date |-> d, category |-> c, amount |-> a]

AbsentFile == [state |-> "absent", cols |-> {}, rows |-> <<>>]
TornFile == [state |-> "empty", cols |-> {}, rows |-> <<>>]

\* DataFrame.to_csv(DATA_FILE, index=False) that completes.
to_csv(table) ==
    [state |-> "ok", cols |-> ExpectedCols,
     rows |-> [i \in 1..Len(table) |->
                 Row(obj_to_csv(table[i].date), obj_to_csv(table[i].category),
                     float_to_csv(table[i].amount))]]

\* A write to the store under an I/O fault: "open" fails before the file is
\* touched, "write" after it was truncated.
write_file(f, table, fault) ==
    IF fault = "open" THEN f ELSE IF fault = "write" THEN TornFile ELSE to_csv(table)

\* _init_file's DataFrame: no rows.
EmptyTable == <<>>

\* load_data's cleaning of what read_csv (or _init_file) returned: a column the
\* file lacks is None, and the amount is to_numeric(...).fillna(0.0).
clean_amount_nofill(x) == to_numeric(x)

clean_amount(x) == fillna0(to_numeric(x))

normalize(f) ==
    [i \in 1..Len(f.rows) |->
        Row(IF "date" \in f.cols THEN read_cell(f.rows[i].date) ELSE None,
            IF "category" \in f.cols THEN read_cell(f.rows[i].category) ELSE None,
            clean_amount(IF "amount" \in f.cols THEN read_cell(f.rows[i].amount) ELSE None))]

\* (mutant) _init_file that never writes the file.
init_file_nowrite(f, fault) == f

\* _init_file: writes the header-only file.
init_file_write(f, fault) == write_file(f, EmptyTable, fault)

\* load_data().  fault: "none"; "read" (read_csv raises); "open" / "write"
\* (_init_file's to_csv raises).  A file of zero bytes always makes read_csv
\* raise (EmptyDataError).  The result: ok, the table returned, the file after.
load_data(f, fault) ==
    IF f.state = "absent"
    THEN IF fault \in {"open", "write"}
         THEN [ok |-> FALSE, table |-> EmptyTable, file |-> init_file_write(f, fault)]
         ELSE [ok |-> TRUE, table |-> EmptyTable, file |-> init_file_write(f, "none")]
    ELSE IF f.state = "empty" \/ fault = "read"
         THEN [ok |-> FALSE, table |-> EmptyTable, file |-> f]
         ELSE [ok |-> TRUE, table |-> normalize(f), file |-> f]

\* save_data(df)
save_data(f, table, fault) == write_file(f, table, fault)

\* add_expense(date, category, amount).  lfault is the fault of its load_data,
\* sfault ("none", "open", "write") that of its save_data.
add_expense(f, d, c, a, lfault, sfault) ==
    LET ld == load_data(f, lfault)
        df == Append(ld.table, Row(d, c, a))
    IN  IF ~ld.ok THEN [ok |-> FALSE, table |-> EmptyTable, file |-> ld.file]
        ELSE IF sfault # "none"
             THEN [ok |-> FALSE, table |-> EmptyTable, file |-> save_data(ld.file, df, sfault)]
             ELSE [ok |-> TRUE, table |-> df, file |-> save_data(ld.file, df, "none")]

(***************************************************************************)
(* filter_data                                                             *)
(***************************************************************************)
\* Python truthiness of an optional string argument: None and "" are false.
truthy(s) == s # None /\ s # ""

\* Timestamp comparisons: any comparison with NaT is False.
ts_ge(a, b) == a # NaT /\ b # NaT /\ a >= b
ts_lt(a, b) == a # NaT /\ b # NaT /\ a < b
ts_le(a, b) == a # NaT /\ b # NaT /\ a <= b

\* df["date"] = pd.to_datetime(df["date"], errors="coerce")
dates_parsed(df) == [i \in 1..Len(df) |-> [df[i] EXCEPT !.date = to_datetime(@)]]

\* df["date"] = df["date"].dt.strftime("%Y-%m-%d")
dates_formatted(df) == [i \in 1..Len(df) |-> [df[i] EXCEPT !.date = strftime(@)]]

\* The category test of filter_data.
category_matches(cell, category) == lower(astype_str(cell)) = lower(category)

\* filter_data(df, start_date, end_date, category) on a DataFrame.
filter_data(df, start_date, end_date, category) ==
    IF df = <<>> THEN df
    ELSE
    LET d0 == dates_parsed(df)
        start == to_datetime(start_date)
        end == to_datetime(end_date)
        GeStart(r) == ts_ge(r.date, start)
        LeEnd(r) == ts_le(r.date, end)
        InCat(r) == category_matches(r.category, category)
        d1 == IF truthy(start_date) /\ start # NaT THEN SelectSeq(d0, GeStart) ELSE d0
        d2 == IF truthy(end_date) /\ end # NaT THEN SelectSeq(d1, LeEnd) ELSE d1
        d3 == IF truthy(category) /\ category # "All" THEN SelectSeq(d2, InCat) ELSE d2
    IN  dates_formatted(d3)

\* (mutant) filter_data that converts the dates of the object passed in.
filter_data_inplace(df, start_date, end_date, category) == dates_formatted(dates_parsed(df))

\* The caller's DataFrame after filter_data(df, ...): every write of filter_data
\* goes to df.copy() or to a selection of it, never to the object passed in.
filter_data_caller(df, start_date, end_date, category) == df

(***************************************************************************)
(* compute_summary                                                         *)
(***************************************************************************)
\* (mutant) truncation towards minus infinity where the code rounds.
round2_floor(num, den) == num \div den

\* round(num / den, 2) on a quotient of hundredths, den > 0.
round2(num, den) == (2 * num + den) \div (2 * den)

RECURSIVE amount_sum(_)
\* Series.sum(): missing values are skipped.
amount_sum(df) ==
    IF df = <<>> THEN 0
    ELSE (IF Head(df).amount.nan THEN 0 ELSE Head(df).amount.v) + amount_sum(Tail(df))

\* Series.count(): the number of values that are not missing.
amount_count(df) == Cardinality({i \in 1..Len(df) : ~df[i].amount.nan})

\* Series.max(): missing values are skipped.
amount_max(df) ==
    LET vals == {df[i].amount.v : i \in {j \in 1..Len(df) : ~df[j].amount.nan}}
    IN  CHOOSE m \in vals : \A v \in vals : v <= m

\* df.groupby("category")["amount"].sum(): rows with a missing key are dropped.
\* The mapping is modelled without the order sort_values gives its entries.
by_category(df) ==
    LET keys == {df[i].category : i \in {j \in 1..Len(df) : ~IsNull(df[j].category)}}
        InKey(k) == LET Is(r) == r.category = k IN SelectSeq(df, Is)
    IN  [k \in keys |-> amount_sum(InKey(k))]

ZeroStats == [total |-> 0, average |-> 0, max |-> 0, count |-> 0, by_category |-> [k \in {} |-> 0]]

\* compute_summary(df) on a DataFrame.
compute_summary(df) ==
    IF df = <<>> THEN ZeroStats
    ELSE
    LET total == amount_sum(df)
        count == amount_count(df)
        average == IF count # 0 THEN round2(total, count) ELSE 0
        max_val == IF count # 0 THEN amount_max(df) ELSE 0
    IN  [total |-> round2(total, 1), average |-> average, max |-> round2(max_val, 1),
         count |-> count, by_category |-> by_category(df)]

(***************************************************************************)
(* _monthly_totals and predict_next_month                                  *)
(***************************************************************************)
\* Series.dt.to_period("M") on one timestamp: the integer yyyymm.
to_period_M(ts) == ts \div 100

RECURSIVE sorted_seq(_)
\* The elements of a finite set of integers in ascending order (sort_index).
sorted_seq(S) ==
    IF S = {} THEN <<>>
    ELSE LET m == CHOOSE x \in S : \A y \in S : x <= y IN <<m>> \o sorted_seq(S \ {m})

\* _monthly_totals(df): the monthly sums, ascending by month.
monthly_totals(df) ==
    LET d == dates_parsed(df)
        Parsed(r) == r.date # NaT
        kept == SelectSeq(d, Parsed)
        months == sorted_seq({to_period_M(kept[i].date) : i \in 1..Len(kept)})
        InMonth(m) == LET Is(r) == to_period_M(r.date) = m IN SelectSeq(kept, Is)
    IN  [k \in 1..Len(months) |-> [month |-> months[k], total |-> amount_sum(InMonth(months[k]))]]

RECURSIVE sum_to(_, _)
\* The sum of f[1] .. f[n].
sum_to(f, n) == IF n = 0 THEN 0 ELSE f[n] + sum_to(f, n - 1)

\* (mutant) the fitted line evaluated at the last month, n - 1, not at n.
ols_last(y) ==
    LET n == Len(y)
        Sx == sum_to([i \in 1..n |-> i - 1], n)
        Sxx == sum_to([i \in 1..n |-> (i - 1) * (i - 1)], n)
        Sy == sum_to(y, n)
        Sxy == sum_to([i \in 1..n |-> (i - 1) * y[i]], n)
        D == n * Sxx - Sx * Sx
    IN  <<Sy * D + (n * Sxy - Sx * Sy) * (n * (n - 1) - Sx), n * D>>

\* LinearRegression().fit(X, y).predict([[n]]) for X = 0 .. n-1, as the quotient
\* <<numerator, denominator>> of the least-squares line's value at n (n >= 2).
ols_next(y) ==
    LET n == Len(y)
        Sx == sum_to([i \in 1..n |-> i - 1], n)
        Sxx == sum_to([i \in 1..n |-> (i - 1) * (i - 1)], n)
        Sy == sum_to(y, n)
        Sxy == sum_to([i \in 1..n |-> (i - 1) * y[i]], n)
        D == n * Sxx - Sx * Sx
    IN  <<Sy * D + (n * Sxy - Sx * Sy) * (n * n - Sx), n * D>>

NoPred == [some |-> FALSE, v |-> 0, advice |-> "not_enough_data"]

\* predict_next_month(df) on a DataFrame: the prediction (absent, or a number
\* of hundredths) and which advice text goes with it.
predict_next_month(df) ==
    LET monthly == monthly_totals(df)
        n == Len(monthly)
        y == [i \in 1..n |-> monthly[i].total]
    IN  IF n = 0 THEN NoPred
        ELSE IF n = 1 THEN [some |-> TRUE, v |-> round2(y[1], 1), advice |-> "naive"]
        ELSE LET q == ols_next(y)
                 pred == round2(q[1], q[2])
             IN  [some |-> TRUE, v |-> pred,
                  advice |-> IF pred <= 0 THEN "flat_or_declining" ELSE "trend"]

(***************************************************************************)
(* State.                                                                  *)
(*   file     the durable store, expenses.csv                              *)
(*   snap     the table a caller of the data layer holds                   *)
(*   out      the last call of the data layer: its arguments, the table it *)
(*            worked on and what it returned                               *)
(*   up, df, tree, summary, ai_text, ev   the front end (see below)        *)
(***************************************************************************)
VARIABLES file, snap, out, up, df, tree, summary, ai_text, ev

coreVars == <<file, snap, out>>
guiVars == <<up, df, tree, summary, ai_text, ev>>
vars == <<file, snap, out, up, df, tree, summary, ai_text, ev>>

\* The arguments add_expense is called with.
AddArgs == {<<"2024-01-15", "Food", Amt(1000)>>, <<"2024-01-31", "FOOD", Amt(3000)>>,
            <<"2024-02-10", "Bills", Amt(3000)>>, <<"2024-03-05", "NA", Amt(1000)>>,
            <<"abc", "Bills", Amt(-500)>>, <<"", "", NaNAmt>>}

\* The stores the program may find when it starts: none; one written by an
\* older version, with the date column only; one with cells that do not parse.
InitFiles == {AbsentFile,
              [state |-> "ok", cols |-> {"date"}, rows |-> <<Row("2024-01-15", "", "")>>],
              [state |-> "ok", cols |-> ExpectedCols,
               rows |-> <<Row("2024-01-15", "Food", "abc"), Row("abc", "", "30")>>]}

LoadFaults == {"none", "read", "open", "write"}
SaveFaults == {"none", "open", "write"}

\* The faults load_data can meet on store f: a read of an existing file, a
\* write of the file _init_file creates.
load_fault_applies(f, fault) ==
    \/ fault = "none"
    \/ fault = "read" /\ f.state = "ok"
    \/ fault \in {"open", "write"} /\ f.state = "absent"

NoOut == [op |-> "none", ok |-> TRUE, explicit |-> FALSE,
          in |-> <<>>, d |-> None, c |-> None, a |-> NaNAmt,
          start |-> None, end |-> None, cat |-> None,
          table |-> <<>>, stats |-> ZeroStats, pred |-> NoPred]

NoEvent == [h |-> "none", date |-> "", category |-> "", amount |-> "",
            called |-> FALSE, raised |-> FALSE, msg |-> "none"]

GuiDown ==
    /\ up = FALSE
    /\ df = <<>>
    /\ tree = <<>>
    /\ summary = ZeroStats
    /\ ai_text = NoPred
    /\ ev = NoEvent

CoreInit ==
    /\ file \in InitFiles
    /\ snap = <<>>
    /\ out = NoOut
    /\ GuiDown

\* A caller runs load_data().
ApiLoad ==
    \E fault \in LoadFaults :
        LET r == load_data(file, fault)
        IN  /\ load_fault_applies(file, fault)
            /\ file' = r.file
            /\ snap' = IF r.ok THEN r.table ELSE snap
            /\ out' = [NoOut EXCEPT !.op = "load", !.ok = r.ok, !.table = r.table]
            /\ UNCHANGED guiVars

\* A caller runs add_expense(d, c, a).
ApiAdd ==
    /\ Len(file.rows) < MaxRows
    /\ \E args \in AddArgs, lfault \in LoadFaults, sfault \in SaveFaults :
        LET r == add_expense(file, args[1], args[2], args[3], lfault, sfault)
        IN  /\ load_fault_applies(file, lfault)
            /\ file' = r.file
            /\ snap' = IF r.ok THEN r.table ELSE snap
            /\ out' = [NoOut EXCEPT !.op = "add", !.ok = r.ok,
                                    !.d = args[1], !.c = args[2], !.a = args[3],
                                    !.table = r.table]
            /\ UNCHANGED guiVars

Next == ApiLoad \/ ApiAdd

Spec == CoreInit /\ [][Next]_vars

(***************************************************************************)
(* The queries, each run once on a table drawn from a bounded set: the     *)
(* tables load_data and add_expense can return.                            *)
(***************************************************************************)
MaxLen == 3

\* The rows of the tables the queries are run on.
SampleRows == {Row("2024-01-15", "Food", Amt(1000)), Row("2024-01-31", "FOOD", Amt(3000)),
               Row("2024-02-10", "Bills", Amt(3000)), Row("2024-03-05", "Food", Amt(1000)),
               Row("abc", "Bills", Amt(-500)), Row(NaN, NaN, NaNAmt),
               Row("2024-02-10", None, Amt(0))}

Tables == UNION {[1..n -> SampleRows] : n \in 0..MaxLen}

\* The optional arguments of filter_data.
BoundArgs == {None, "", "abc", "2024-01-15", "2024-01-31"}
CategoryArgs == {None, "All", "food", "Bills", "nan"}

QueryInit ==
    /\ snap \in Tables
    /\ file \in {AbsentFile, TornFile, to_csv(snap)}
    /\ out = NoOut
    /\ GuiDown

\* The table a query works on: the caller's snapshot, or load_data() when the
\* df argument is omitted.
query_input(explicit, fault) ==
    IF explicit THEN [ok |-> TRUE, table |-> snap, file |-> file] ELSE load_data(file, fault)

\* A caller runs filter_data(df, start_date, end_date, category).
ApiFilter ==
    /\ out.op = "none"
    /\ \E explicit \in BOOLEAN, fault \in LoadFaults,
          start \in BoundArgs, end \in BoundArgs, cat \in CategoryArgs :
        LET r == query_input(explicit, fault)
        IN  /\ IF explicit THEN fault = "none" ELSE load_fault_applies(file, fault)
            /\ ~r.ok => start = None /\ end = None /\ cat = None
            /\ file' = r.file
            /\ snap' = IF explicit THEN filter_data_caller(snap, start, end, cat) ELSE snap
            /\ out' = [NoOut EXCEPT !.op = "filter", !.ok = r.ok, !.explicit = explicit,
                                    !.in = r.table,
                                    !.start = start, !.end = end, !.cat = cat,
                                    !.table = IF r.ok THEN filter_data(r.table, start, end, cat)
                                              ELSE <<>>]
            /\ UNCHANGED guiVars

\* A caller runs compute_summary(df).
ApiSummarize ==
    /\ out.op = "none"
    /\ \E explicit \in BOOLEAN, fault \in LoadFaults :
        LET r == query_input(explicit, fault)
        IN  /\ IF explicit THEN fault = "none" ELSE load_fault_applies(file, fault)
            /\ file' = r.file
            /\ snap' = snap
            /\ out' = [NoOut EXCEPT !.op = "summarize", !.ok = r.ok, !.explicit = explicit,
                                    !.in = r.table,
                                    !.stats = IF r.ok THEN compute_summary(r.table)
                                              ELSE ZeroStats]
            /\ UNCHANGED guiVars

\* A caller runs predict_next_month(df).
ApiPredict ==
    /\ out.op = "none"
    /\ \E explicit \in BOOLEAN, fault \in LoadFaults :
        LET r == query_input(explicit, fault)
        IN  /\ IF explicit THEN fault = "none" ELSE load_fault_applies(file, fault)
            /\ file' = r.file
            /\ snap' = snap
            /\ out' = [NoOut EXCEPT !.op = "predict", !.ok = r.ok, !.explicit = explicit,
                                    !.in = r.table,
                                    !.pred = IF r.ok THEN predict_next_month(r.table)
                                             ELSE NoPred]
            /\ UNCHANGED guiVars

QueryNext == ApiFilter \/ ApiSummarize \/ ApiPredict

QuerySpec == QueryInit /\ [][QueryNext]_vars

(***************************************************************************)
(* The front end, SmartExpenseApp.                                         *)
(*   up        the window exists (the constructor has returned)            *)
(*   df        self.df, the in-memory snapshot                             *)
(*   tree      the rows the table widget shows, as text                    *)
(*   summary   what the summary labels show                                *)
(*   ai_text   what the AI Insight box shows                               *)
(*   ev        the last handler run: its inputs, whether it called         *)
(*             add_expense, whether that raised, and the message box it    *)
(*             put up.  A message box is modal: until it is dismissed no   *)
(*             other handler runs.                                         *)
(***************************************************************************)
GuiMaxRows == 2

\* format(x, ".2f") of a float, as the table shows an amount: <<hundredths, text>>.
DisplayTable == {<<0, "0.00">>, <<1000, "10.00">>, <<3000, "30.00">>, <<-500, "-5.00">>}

\* f"{float(amount):.2f}"
format_2f(a) == IF a.nan THEN "nan" ELSE (CHOOSE p \in DisplayTable : p[1] = a.v)[2]

\* str(value) of a cell.
py_str(x) == IF x = NaN THEN "nan" ELSE IF x = None THEN "None" ELSE x

\* str.strip() on the text typed into a field.
strip(s) == IF s = "  " THEN "" ELSE IF s = " 10 " THEN "10" ELSE s

\* float(text): whether it parses, and the value.  "nan" parses, to nan.
py_float(t) ==
    IF t \in {"nan", "NaN"} THEN [ok |-> TRUE, val |-> NaNAmt]
    ELSE IF \E p \in FloatRepr : p[2] = t THEN [ok |-> TRUE, val |-> to_numeric(t)]
    ELSE IF \E p \in FloatAlso : p[1] = t THEN [ok |-> TRUE, val |-> to_numeric(t)]
    ELSE IF \E p \in DisplayTable : p[2] = t
         THEN [ok |-> TRUE, val |-> Amt((CHOOSE p \in DisplayTable : p[2] = t)[1])]
    ELSE [ok |-> FALSE, val |-> NaNAmt]

\* amount <= 0 on a float: False for nan.
le_zero(a) == ~a.nan /\ a.v <= 0

\* _populate_table(df): the rows of the table widget.
populate_table(t) ==
    [i \in 1..Len(t) |-> Row(py_str(t[i].date), py_str(t[i].category), format_2f(t[i].amount))]

\* _get_current_table_df() with every amount taken as unparsable (mutant).
get_current_table_df_zero(tr) ==
    [i \in 1..Len(tr) |-> Row(tr[i].date, tr[i].category, Amt(0))]

\* _get_current_table_df(): a DataFrame rebuilt from the rows of the widget.
get_current_table_df(tr) ==
    [i \in 1..Len(tr) |->
        Row(tr[i].date, tr[i].category,
            IF py_float(tr[i].amount).ok THEN py_float(tr[i].amount).val ELSE Amt(0))]

\* What the user types into the add form and the filter form.
DateInputs == {"2024-01-15", "2024-02-10", "NA", "  "}
CategoryInputs == {"Food", ""}
AmountInputs == {" 10 ", "0", "abc", "nan", ""}
FilterStartInputs == {"", "2024-02-10"}
FilterEndInputs == {"", "2024-01-31"}
FilterCategoryInputs == {"All", "food"}

Event(h) == [NoEvent EXCEPT !.h = h]

GuiInit ==
    /\ file \in InitFiles
    /\ snap = <<>>
    /\ out = NoOut
    /\ GuiDown

\* SmartExpenseApp.__init__: load_data(), _populate_table(self.df) and
\* _update_summary_panel(), which loads the store again.  When a load raises,
\* the constructor raises and there is no window.
Start ==
    /\ ~up
    /\ \E f1 \in LoadFaults, f2 \in {"none", "read"} :
        LET l1 == load_data(file, f1)
            l2 == load_data(l1.file, f2)
        IN  /\ load_fault_applies(file, f1)
            /\ file' = IF l1.ok THEN l2.file ELSE l1.file
            /\ IF l1.ok /\ l2.ok
               THEN /\ up' = TRUE
                    /\ df' = l1.table
                    /\ tree' = populate_table(l1.table)
                    /\ summary' = compute_summary(l2.table)
                    /\ ai_text' = NoPred
                    /\ ev' = Event("init")
               ELSE UNCHANGED guiVars
            /\ UNCHANGED <<snap, out>>

\* The window is closed.
Close ==
    /\ up /\ ev.msg = "none"
    /\ up' = FALSE
    /\ df' = <<>>
    /\ tree' = <<>>
    /\ summary' = ZeroStats
    /\ ai_text' = NoPred
    /\ ev' = NoEvent
    /\ UNCHANGED coreVars

\* The user dismisses the message box.
Dismiss ==
    /\ up /\ ev.msg # "none"
    /\ ev' = NoEvent
    /\ UNCHANGED <<up, df, tree, summary, ai_text>>
    /\ UNCHANGED coreVars

\* on_add_expense with the fields as typed.  lfault and sfault are the faults
\* add_expense meets, ufault the one _update_summary_panel's load_data meets
\* (it raises out of the handler, after the table was redrawn).
OnAddExpense(date_in, category_in, amount_in) ==
    LET date == strip(date_in)
        category == strip(category_in)
        amount_str == strip(amount_in)
        parsed == py_float(amount_str)
        me == [Event("on_add_expense") EXCEPT !.date = date_in, !.category = category_in,
                                              !.amount = amount_in]
    IN  /\ up /\ ev.msg = "none"
        /\ IF date = "" \/ category = "" \/ amount_str = ""
           THEN /\ ev' = [me EXCEPT !.msg = "Missing Data"]
                /\ UNCHANGED <<file, up, df, tree, summary, ai_text>>
           ELSE IF ~parsed.ok \/ le_zero(parsed.val)
           THEN /\ ev' = [me EXCEPT !.msg = "Invalid Amount"]
                /\ UNCHANGED <<file, up, df, tree, summary, ai_text>>
           ELSE /\ Len(file.rows) < GuiMaxRows
                /\ \E lfault \in LoadFaults, sfault \in SaveFaults, ufault \in {"none", "read"} :
                    LET r == add_expense(file, date, category, parsed.val, lfault, sfault)
                        u == load_data(r.file, ufault)
                    IN  /\ load_fault_applies(file, lfault)
                        /\ IF ~r.ok
                           THEN /\ ufault = "none"
                                /\ file' = r.file
                                /\ ev' = [me EXCEPT !.called = TRUE, !.raised = TRUE,
                                                    !.msg = "Error"]
                                /\ UNCHANGED <<up, df, tree, summary, ai_text>>
                           ELSE /\ file' = u.file
                                /\ df' = r.table
                                /\ tree' = populate_table(r.table)
                                /\ summary' = IF u.ok THEN compute_summary(u.table) ELSE summary
                                /\ ev' = [me EXCEPT !.called = TRUE,
                                                    !.msg = IF u.ok THEN "Success" ELSE "none"]
                                /\ UNCHANGED <<up, ai_text>>
        /\ UNCHANGED <<snap, out>>

\* on_apply_filter with the filter fields as typed.
OnApplyFilter(start_in, end_in, cat_in) ==
    LET start == IF strip(start_in) = "" THEN None ELSE strip(start_in)
        end == IF strip(end_in) = "" THEN None ELSE strip(end_in)
        cat == IF strip(cat_in) = "" THEN None ELSE strip(cat_in)
        filtered == filter_data(df, start, end, cat)
    IN  /\ up /\ ev.msg = "none"
        /\ df' = filter_data_caller(df, start, end, cat)
        /\ tree' = populate_table(filtered)
        /\ summary' = compute_summary(filtered)
        /\ ev' = Event("on_apply_filter")
        /\ UNCHANGED <<up, ai_text>>
        /\ UNCHANGED coreVars

\* on_reset_filter: shows self.df again; the summary is computed from the store.
OnResetFilter(ufault) ==
    LET u == load_data(file, ufault)
    IN  /\ up /\ ev.msg = "none"
        /\ load_fault_applies(file, ufault)
        /\ file' = u.file
        /\ tree' = populate_table(df)
        /\ summary' = IF u.ok THEN compute_summary(u.table) ELSE summary
        /\ ev' = Event("on_reset_filter")
        /\ UNCHANGED <<up, df, ai_text>>
        /\ UNCHANGED <<snap, out>>

\* on_ai_analyze: the forecast over the rows shown, or over self.df when the
\* table shows none.
OnAiAnalyze ==
    LET filtered_df == get_current_table_df(tree)
    IN  /\ up /\ ev.msg = "none"
        /\ ai_text' = predict_next_month(IF filtered_df # <<>> THEN filtered_df ELSE df)
        /\ ev' = Event("on_ai_analyze")
        /\ UNCHANGED <<up, df, tree, summary>>
        /\ UNCHANGED coreVars

GuiNext ==
    \/ Start
    \/ Close
    \/ Dismiss
    \/ \E d \in DateInputs, c \in CategoryInputs, a \in AmountInputs :
            OnAddExpense(d, c, a)
    \/ \E s \in FilterStartInputs, e \in FilterEndInputs, c \in FilterCategoryInputs :
            OnApplyFilter(s, e, c)
    \/ \E ufault \in LoadFaults : OnResetFilter(ufault)
    \/ OnAiAnalyze

GuiSpec == GuiInit /\ [][GuiNext]_vars

(***************************************************************************)
(* Properties of the store (Spec).                                         *)
(***************************************************************************)
\* A table with None read as the missing value NaN: both are a missing cell.
Canon(t) ==
    [i \in 1..Len(t) |-> Row(IF IsNull(t[i].date) THEN NaN ELSE t[i].date,
                              IF IsNull(t[i].category) THEN NaN ELSE t[i].category,
                              t[i].amount)]

\* What a load_data() that meets no fault returns on store f.
Loaded(f) == Canon(load_data(f, "none").table)

\* C1: after a successful add_expense(d, c, a), load_data returns the records it
\* returned before the call, in their order, followed by the record (d, c, a).
C1_AddThenLoad ==
    [][(out'.op = "add" /\ out'.ok)
          => Loaded(file') = Append(Loaded(file), Row(out'.d, out'.c, out'.a))]_vars

\* Text that is a number.
IsNumberText(t) == \/ \E p \in FloatRepr : p[2] = t
                   \/ \E p \in FloatAlso : p[1] = t

\* The amount cell of row i of the store, "" when the file has no amount column.
RawAmount(f, i) == IF "amount" \in f.cols THEN f.rows[i].amount ELSE ""

\* C3 as stated: every amount of a table load_data or add_expense returns is a
\* number >= 0, and 0 where the store's cell was missing or unparsable.
C3_AmountNonNegative ==
    (out.op \in {"load", "add"} /\ out.ok)
        => /\ \A i \in 1..Len(out.table) :
                ~out.table[i].amount.nan /\ out.table[i].amount.v >= 0
           /\ out.op = "load"
                => \A i \in 1..Len(out.table) :
                      ~IsNumberText(RawAmount(file, i)) => out.table[i].amount = Amt(0)

\* C3 as amended: every amount of a table load_data returns is a number, 0 where
\* the store's cell was missing or unparsable and the cell's value otherwise
\* (negative values included).
C3_LoadedAmountNumeric ==
    (out.op = "load" /\ out.ok)
        => /\ Len(out.table) = Len(file.rows)
           /\ \A i \in 1..Len(out.table) :
                /\ ~out.table[i].amount.nan
                /\ ~IsNumberText(RawAmount(file, i)) => out.table[i].amount = Amt(0)
                /\ IsNumberText(RawAmount(file, i))
                      => \/ <<out.table[i].amount.v, RawAmount(file, i)>> \in FloatRepr
                         \/ <<RawAmount(file, i), out.table[i].amount.v>> \in FloatAlso

C3_Witness ==
    /\ out.op = "load" /\ out.ok
    /\ \E i, j \in 1..Len(out.table) :
          /\ RawAmount(file, i) = "abc" /\ out.table[i].amount = Amt(0)
          /\ RawAmount(file, j) = "30" /\ out.table[j].amount = Amt(3000)

\* C5: load_data on a store that does not exist returns the empty table and
\* leaves the header-only file date,category,amount; a second load_data returns
\* the empty table from it.
C5_LoadCreatesEmptyStore ==
    [][(file.state = "absent" /\ out'.op = "load" /\ out'.ok)
          => /\ out'.table = <<>>
             /\ file' = [state |-> "ok", cols |-> {"date", "category", "amount"}, rows |-> <<>>]
             /\ \A fault \in {"none", "open", "write"} :
                   load_data(file', fault) = [ok |-> TRUE, table |-> <<>>, file |-> file']]_vars

C5_Witness ==
    /\ out.op = "load" /\ out.ok /\ out.table = <<>>
    /\ file.state = "ok" /\ file.rows = <<>>

(***************************************************************************)
(* Properties of the queries (QuerySpec).                                  *)
(***************************************************************************)
\* The records the store holds: none when there is no file, or an empty one.
StoredRecords(f) == IF f.state = "ok" THEN Loaded(f) ELSE <<>>

\* C4: filter_data, compute_summary and predict_next_month, called with the
\* caller's snapshot or without one, leave the caller's snapshot and the records
\* of the store as they were.
C4_QueriesDoNotMutate ==
    [][out'.op \in {"filter", "summarize", "predict"}
          => snap' = snap /\ StoredRecords(file') = StoredRecords(file)]_vars

C4_Witness ==
    /\ out.op = "filter" /\ out.explicit /\ out.in = snap
    /\ Len(out.table) = Len(snap)
    /\ \E i \in 1..Len(snap) : snap[i].date = "abc" /\ out.table[i].date = NaN

\* Text that is a date, and the day it names.
IsDateText(x) == \E p \in DateTable : p[1] = x
DayOf(x) == (CHOOSE p \in DateTable : p[1] = x)[2]

\* A bound of filter_data that takes part in the comparison: given and parsable.
BoundGiven(b) == b # None /\ b # "" /\ IsDateText(b)

\* The date of a record as filter_data returns it: YYYY-MM-DD, or missing.
ShownDate(x) == IF IsDateText(x) THEN x ELSE NaN

\* The rows of t at the indices I, in the order of t, as filter_data shows them.
Selected(t, I) ==
    LET idx == sorted_seq(I)
    IN  [k \in 1..Len(idx) |-> Row(ShownDate(t[idx[k]].date), t[idx[k]].category,
                                   t[idx[k]].amount)]

\* Record i of t lies within the bounds start and end, each counted only when given.
InRange(t, i, start, end) ==
    /\ BoundGiven(start) => IsDateText(t[i].date) /\ DayOf(start) <= DayOf(t[i].date)
    /\ BoundGiven(end) => IsDateText(t[i].date) /\ DayOf(t[i].date) <= DayOf(end)

\* C6: without a category restriction, filter_data returns, in input order,
\* exactly the records whose date lies in [start, end] inclusive, a bound that is
\* omitted or unparsable being absent; a record with an unparsable date is left
\* out as soon as one bound is parsable; an end before the start gives nothing.
C6_DateRangeFilter ==
    (out.op = "filter" /\ out.ok /\ out.cat \in {None, "All"})
        => /\ out.table = Selected(out.in, {i \in 1..Len(out.in) :
                                               InRange(out.in, i, out.start, out.end)})
           /\ (BoundGiven(out.start) \/ BoundGiven(out.end))
                 => \A k \in 1..Len(out.table) : IsDateText(out.table[k].date)
           /\ (BoundGiven(out.start) /\ BoundGiven(out.end)
                 /\ DayOf(out.end) < DayOf(out.start)) => out.table = <<>>

C6_Witness ==
    /\ out.op = "filter" /\ out.ok /\ out.cat = None
    /\ out.start = "2024-01-15" /\ out.end = "2024-01-31"
    /\ Len(out.in) = 3 /\ Len(out.table) = 2
    /\ out.table[1].date = "2024-01-31" /\ out.table[2].date = "2024-01-15"
    /\ \E i \in 1..3 : out.in[i].date = "abc"

\* Two categories are equal ignoring letter case; a missing category equals none.
SameCategory(cell, c) == ~IsNull(cell) /\ lower(cell) = lower(c)

\* C7 as stated: without date bounds, filter_data returns exactly the records
\* whose category equals c ignoring case, and every record when c is omitted or
\* "All" (dates shown as YYYY-MM-DD).
C7_CategoryFilter ==
    (out.op = "filter" /\ out.ok /\ out.start \in {None, ""} /\ out.end \in {None, ""})
        => IF out.cat \in {None, "All"}
           THEN out.table = Selected(out.in, 1..Len(out.in))
           ELSE out.table = Selected(out.in, {i \in 1..Len(out.in) :
                                                 SameCategory(out.in[i].category, out.cat)})

RECURSIVE SumOver(_, _)
\* The sum of f over the finite set I.
SumOver(f, I) ==
    IF I = {} THEN 0 ELSE LET i == CHOOSE j \in I : TRUE IN f[i] + SumOver(f, I \ {i})

\* q is num / den rounded to the nearest integer (den > 0).
IsNearest(q, num, den) == 2 * (q * den - num) <= den /\ 2 * (num - q * den) <= den

\* C8: compute_summary of the empty table is all zero with no categories; of a
\* non-empty one, total is the sum of the amounts, count the number of amounts
\* that are not missing, average total / count and max the largest amount, each
\* to 2 decimal places (average and max are 0 when every amount is missing).
C8_Summary ==
    (out.op = "summarize" /\ out.ok)
        => LET t == out.in
               I == {i \in 1..Len(t) : ~t[i].amount.nan}
               v == [i \in 1..Len(t) |-> t[i].amount.v]
               st == out.stats
           IN  IF Len(t) = 0
               THEN st.total = 0 /\ st.average = 0 /\ st.max = 0 /\ st.count = 0
                    /\ DOMAIN st.by_category = {}
               ELSE /\ st.total = SumOver(v, I)
                    /\ st.count = Cardinality(I)
                    /\ I # {} => /\ IsNearest(st.average, SumOver(v, I), Cardinality(I))
                                 /\ \E i \in I : st.max = v[i]
                                 /\ \A i \in I : v[i] <= st.max
                    /\ I = {} => st.average = 0 /\ st.max = 0

C8_Witness ==
    /\ out.op = "summarize" /\ out.ok
    /\ Len(out.in) = 3
    /\ \E i \in 1..3 : out.in[i].amount.nan
    /\ out.stats.total = 4000 /\ out.stats.average = 2000
    /\ out.stats.max = 3000 /\ out.stats.count = 2

\* The calendar months of the records of t whose date parses, and their sums.
MonthOf(x) == DayOf(x) \div 100
MonthsOf(t) == {MonthOf(t[i].date) : i \in {j \in 1..Len(t) : IsDateText(t[j].date)}}
MonthSum(t, m) ==
    SumOver([i \in 1..Len(t) |-> t[i].amount.v],
            {i \in 1..Len(t) : IsDateText(t[i].date) /\ MonthOf(t[i].date) = m
                                 /\ ~t[i].amount.nan})
MonthlySums(t) == LET ms == sorted_seq(MonthsOf(t)) IN [k \in 1..Len(ms) |-> MonthSum(t, ms[k])]

\* The value at x = n of the least-squares line through (0, y[1]) .. (n-1, y[n]),
\* as <<numerator, denominator>>: mean(y) + slope * (n - mean(x)) with
\* slope = sum (x - mean x)(y - mean y) / sum (x - mean x)^2, every term scaled by n.
LineAtNext(y) ==
    LET n == Len(y)
        Sx == SumOver([i \in 1..n |-> i - 1], 1..n)
        Sy == SumOver(y, 1..n)
        Nb == SumOver([i \in 1..n |-> (n * (i - 1) - Sx) * (n * y[i] - Sy)], 1..n)
        Db == SumOver([i \in 1..n |-> (n * (i - 1) - Sx) * (n * (i - 1) - Sx)], 1..n)
    IN  <<Sy * Db + Nb * (n * n - Sx), n * Db>>

\* C9 as stated: no month, no prediction; one month, its total; two months or
\* more, exactly the least-squares line's value at index n.
C9_PredictExact ==
    (out.op = "predict" /\ out.ok)
        => LET y == MonthlySums(out.in)
               n == Len(y)
           IN  /\ n = 0 => ~out.pred.some
               /\ n = 1 => out.pred.some /\ out.pred.v = y[1]
               /\ n >= 2 => /\ out.pred.some
                            /\ out.pred.v * LineAtNext(y)[2] = LineAtNext(y)[1]

\* C9 as amended: with two months or more the prediction is the least-squares
\* line's value at index n rounded to 2 decimal places.
C9_PredictRounded ==
    (out.op = "predict" /\ out.ok)
        => LET y == MonthlySums(out.in)
               n == Len(y)
           IN  /\ n = 0 => ~out.pred.some
               /\ n = 1 => out.pred.some /\ out.pred.v = y[1]
               /\ n >= 2 => /\ out.pred.some
                            /\ IsNearest(out.pred.v, LineAtNext(y)[1], LineAtNext(y)[2])

C9_Witness ==
    /\ out.op = "predict" /\ out.ok
    /\ MonthlySums(out.in) = <<1000, 3000, 1000>>
    /\ out.pred.some /\ out.pred.v = 1667

(***************************************************************************)
(* Properties of the front end (GuiSpec).                                  *)
(***************************************************************************)
\* C2: a run of on_add_expense that calls add_expense either fails as a whole
\* (add_expense raised: the error box is shown, the store holds the records it
\* held, self.df and the table are as they were) or succeeds as a whole (self.df
\* is updated and equals the table the store now holds).
C2_AddAllOrNothing ==
    [][(ev'.h = "on_add_expense" /\ ev'.called)
          => IF ev'.raised
             THEN /\ ev'.msg = "Error"
                  /\ StoredRecords(file') = StoredRecords(file)
                  /\ df' = df /\ tree' = tree
             ELSE /\ Len(df') = Len(Loaded(file)) + 1
                  /\ Canon(df') = StoredRecords(file')]_vars

\* The amount text names a number greater than 0.
IsPositiveNumberText(t) ==
    \/ \E p \in FloatRepr : p[2] = t /\ p[1] > 0
    \/ \E p \in FloatAlso : p[1] = t /\ p[2] > 0

\* The three fields, trimmed, are non-empty and the amount is a number > 0.
ValidInput(e) ==
    /\ strip(e.date) # "" /\ strip(e.category) # "" /\ strip(e.amount) # ""
    /\ IsPositiveNumberText(strip(e.amount))

\* C10: on_add_expense calls add_expense only for valid input; for any other it
\* shows an error and leaves the store, self.df and the table as they were; so
\* the record an accepted input appends has an amount > 0.
C10_InvalidInputRejected ==
    [][ev'.h = "on_add_expense"
          => /\ ev'.called <=> ValidInput(ev')
             /\ ~ValidInput(ev')
                   => /\ ev'.msg \in {"Missing Data", "Invalid Amount"}
                      /\ file' = file /\ df' = df /\ tree' = tree
             /\ (ev'.called /\ ~ev'.raised)
                   => /\ ~df'[Len(df')].amount.nan
                      /\ df'[Len(df')].amount.v > 0]_vars

\* The amount a row of the table widget shows: the number its text names, or
\* missing when the text names none (the table shows "nan").
ShownAmount(text) ==
    IF \E p \in DisplayTable : p[2] = text
    THEN Amt((CHOOSE p \in DisplayTable : p[2] = text)[1])
    ELSE NaNAmt

\* The records the table widget displays.
ShownRecords(tr) ==
    [i \in 1..Len(tr) |-> Row(tr[i].date, tr[i].category, ShownAmount(tr[i].amount))]

\* pred is the forecast of predictNextMonth over the table t: absent without a
\* month, the month's total with one, the least-squares line's value at index n
\* to 2 decimal places with n >= 2 months.
IsForecastOf(pred, t) ==
    LET y == MonthlySums(t)
        n == Len(y)
    IN  /\ n = 0 => ~pred.some
        /\ n = 1 => pred.some /\ pred.v = y[1]
        /\ n >= 2 => pred.some /\ IsNearest(pred.v, LineAtNext(y)[1], LineAtNext(y)[2])

\* C11 as stated: on_ai_analyze shows the forecast over the records the table
\* displays, whatever they are; after a filter the forecast is that of the
\* records that pass it, so a filter nothing passes gives no forecast.
C11_ForecastFollowsView ==
    ev.h = "on_ai_analyze" => IsForecastOf(ai_text, ShownRecords(tree))

\* C11 as amended: on_ai_analyze shows the forecast over the records the table
\* displays when it displays at least one, and over the whole snapshot self.df
\* when it displays none.
C11_ForecastViewOrSnapshot ==
    ev.h = "on_ai_analyze"
        => IsForecastOf(ai_text, IF tree # <<>> THEN ShownRecords(tree) ELSE df)

\* A filter left one of the two records of self.df in the table, and the
\* forecast shown is that single month's total.
C11_Witness ==
    /\ ev.h = "on_ai_analyze"
    /\ Len(df) = 2 /\ Len(tree) = 1
    /\ Len(MonthlySums(df)) = 2
    /\ tree[1].amount = "10.00"
    /\ ai_text.some /\ ai_text.v = 1000 /\ ai_text.advice = "naive"

====
